---- MODULE Spec2Model ----
(***************************************************************************)
(* libcontainer-rs: the overlay storage driver (src/filesystem.rs), the    *)
(* supervisor <-> runtime control channel (src/ipc.rs), the runtime that   *)
(* runs inside the container (src/runtime.rs), the exec facade             *)
(* (src/syscall.rs) and the supervisor handle (src/container.rs).          *)
(*                                                                         *)
(* Five specifications share the variables:                                *)
(*   SpecDriver  a client calling mount / umount / root on one             *)
(*               OverlayDriver in any order;                               *)
(*   Spec        the supervisor process and the cloned container child,    *)
(*               which runs Runtime::run;                                  *)
(*   SpecThread  the same with the child running the callback of           *)
(*               src/container.rs, Container::container_thread;            *)
(*   SpecHost    runtimes made from several ids and hostname options, in   *)
(*               images with and without an /etc/hostname;                 *)
(*   SpecLive    the supervisor, which may exit, and the child, whose      *)
(*               steps are taken under weak fairness.                      *)
(***************************************************************************)
EXTENDS Integers, Sequences, FiniteSets, TLC

\* ------------------------------------------------------------------------
\* Bounds of the model
\* ------------------------------------------------------------------------

\* overlay mounts stacked on T/merge at any one time
MaxMounts == 3

\* messages the supervisor puts on the channel in one run
MaxSends == 2

\* ------------------------------------------------------------------------
\* Paths, results
\* ------------------------------------------------------------------------

\* OverlayDriver::MERGE_DIR / UPPER_DIR / WORK_DIR
MERGE_DIR == "merge"

UPPER_DIR == "upper"

WORK_DIR == "workdir"

\* the target directory T handed to OverlayDriver::new, as path components
Target == <<"T">>

\* the image layers handed to OverlayDriver::new
Layers == <<"L0">>

\* PathBuf::join with a relative component
Join(path, component) == Append(path, component)

\* Result<(), Report> / Result<&Path, Report>
Ok(path) == [ok |-> TRUE, path |-> path, err |-> ""]

Err(e) == [ok |-> FALSE, path |-> <<>>, err |-> e]

\* Option<Mount>: sys_mount::Mount remembers the target it was mounted on
NoneMount == [some |-> FALSE, target |-> <<>>]

SomeMount(target) == [some |-> TRUE, target |-> target]

\* ------------------------------------------------------------------------
\* Kernel side: directories and the mount table
\* ------------------------------------------------------------------------

\* Path::exists
Exists(dirs, path) == path \in dirs

\* fs::create_dir: fails on a path that exists already
CreateDir(dirs, path) ==
    IF path \in dirs
    THEN [dirs |-> dirs, res |-> Err("EEXIST")]
    ELSE [dirs |-> dirs \cup {path}, res |-> Ok(<<>>)]

\* the variant that creates the directory without looking first
CreateDirUnguarded(dirs, path) == CreateDir(dirs, path)

\* if !path.exists() { fs::create_dir(path)?; } as OverlayDriver::mount has it
CreateDirIfMissing(dirs, path) ==
    IF Exists(dirs, path) THEN [dirs |-> dirs, res |-> Ok(<<>>)] ELSE CreateDir(dirs, path)

\* positions of the mount table mounted on path
MountsAt(mtab, path) == {i \in 1..Len(mtab) : mtab[i].target = path}

IsMountPoint(mtab, path) == MountsAt(mtab, path) # {}

RemoveAt(s, i) == SubSeq(s, 1, i - 1) \o SubSeq(s, i + 1, Len(s))

Max(S) == CHOOSE x \in S : \A y \in S : y <= x

\* umount2(path, MNT_DETACH): detaches the topmost mount on path, EINVAL when
\* path is not a mount point
Umount2(mtab, path) ==
    IF IsMountPoint(mtab, path)
    THEN [mtab |-> RemoveAt(mtab, Max(MountsAt(mtab, path))), res |-> Ok(<<>>)]
    ELSE [mtab |-> mtab, res |-> Err("EINVAL")]

\* ------------------------------------------------------------------------
\* OverlayDriver (src/filesystem.rs)
\* ------------------------------------------------------------------------

OverlayNew(layers, target) == [layers |-> layers, target |-> target, mount |-> NoneMount]

\* the mount(2) request OverlayDriver::mount builds
OverlayEntry(d) ==
    [source |-> "overlay",
     target |-> Join(d.target, MERGE_DIR),
     fstype |-> "overlay",
     flags  |-> {"NOSUID"},
     data   |-> [lowerdir |-> d.layers,
                 upperdir |-> Join(d.target, UPPER_DIR),
                 workdir  |-> Join(d.target, WORK_DIR)]]

\* the directory part of OverlayDriver::mount: the target, then merge, upper
\* and workdir, each created when missing; the first error ends it (`?`)
OverlayDirs(d, dirs) ==
    LET d0 == CreateDirIfMissing(dirs, d.target)
        d1 == IF d0.res.ok THEN CreateDirIfMissing(d0.dirs, Join(d.target, MERGE_DIR)) ELSE d0
        d2 == IF d1.res.ok THEN CreateDirIfMissing(d1.dirs, Join(d.target, UPPER_DIR)) ELSE d1
    IN  IF d2.res.ok THEN CreateDirIfMissing(d2.dirs, Join(d.target, WORK_DIR)) ELSE d2

\* a variant that stores the handle before the kernel has accepted the mount
OverlayMountEager(d, dirs, mtab, kernelOk) ==
    LET c == OverlayDirs(d, dirs)
    IN  [drv  |-> [d EXCEPT !.mount = SomeMount(Join(d.target, MERGE_DIR))],
         dirs |-> c.dirs,
         mtab |-> IF c.res.ok /\ kernelOk THEN Append(mtab, OverlayEntry(d)) ELSE mtab,
         res  |-> IF ~c.res.ok THEN c.res ELSE IF kernelOk THEN Ok(<<>>) ELSE Err("mount")]

\* OverlayDriver::mount.  kernelOk is the outcome of Mount::new: the kernel
\* may refuse the overlay (missing layer, no privilege, upperdir in use with
\* index=on) or accept it, also when an overlay is already mounted there.
\* The handle is not consulted before mounting.
OverlayMount(d, dirs, mtab, kernelOk) ==
    LET c == OverlayDirs(d, dirs)
    IN  IF ~c.res.ok
        THEN [drv |-> d, dirs |-> c.dirs, mtab |-> mtab, res |-> c.res]
        ELSE IF kernelOk
        THEN [drv  |-> [d EXCEPT !.mount = SomeMount(Join(d.target, MERGE_DIR))],
              dirs |-> c.dirs,
              mtab |-> Append(mtab, OverlayEntry(d)),
              res  |-> Ok(<<>>)]
        ELSE [drv  |-> d,
              dirs |-> c.dirs,
              mtab |-> mtab,
              res  |-> Err("mount")]

\* a variant that swallows the error of the fallback umount2
OverlayUmountLenient(d, mtab) ==
    IF d.mount.some
    THEN LET r == Umount2(mtab, d.mount.target)
         IN  [drv |-> [d EXCEPT !.mount = NoneMount], mtab |-> r.mtab, res |-> r.res]
    ELSE LET r == Umount2(mtab, Join(d.target, MERGE_DIR))
         IN  [drv |-> d, mtab |-> r.mtab, res |-> Ok(<<>>)]

\* OverlayDriver::umount: self.mount.take() empties the handle before the
\* unmount is attempted; without a handle it falls back to umount2(T/merge)
OverlayUmount(d, mtab) ==
    IF d.mount.some
    THEN LET r == Umount2(mtab, d.mount.target)
         IN  [drv |-> [d EXCEPT !.mount = NoneMount], mtab |-> r.mtab, res |-> r.res]
    ELSE LET r == Umount2(mtab, Join(d.target, MERGE_DIR))
         IN  [drv |-> d, mtab |-> r.mtab, res |-> r.res]

\* OverlayDriver::root
OverlayRoot(d) ==
    IF d.mount.some THEN Ok(d.mount.target) ELSE Err("Filesystem is not mounted")

\* ------------------------------------------------------------------------
\* Messages and the channel (src/ipc.rs)
\* ------------------------------------------------------------------------

\* ipc::ExecType
FORK == "FORK"

REPLACE == "REPLACE"

ExecTypes == {FORK, REPLACE}

\* Option<T> arguments of execute_in_container
None == [some |-> FALSE, val |-> <<>>]

Some(v) == [some |-> TRUE, val |-> v]

\* Option::unwrap_or
UnwrapOr(opt, default) == IF opt.some THEN opt.val ELSE default

\* ipc::Command
Command(command, args, env, exec_type) ==
    [command |-> command, args |-> args, env |-> env, exec_type |-> exec_type]

\* ipc::Message::ACTION(Action::STOP)
StopMsg == [kind |-> "ACTION", action |-> "STOP", command |-> Command("", <<>>, <<>>, "")]

\* ipc::Message::COMMAND(command)
CommandMsg(c) == [kind |-> "COMMAND", action |-> "", command |-> c]

\* the channel variant that hands out the newest message first
ReceiveNewest(chan) == [msg |-> chan[Len(chan)], rest |-> SubSeq(chan, 1, Len(chan) - 1)]

\* the channel variant whose receive discards the rest of the backlog
ReceiveDrain(chan) == [msg |-> Head(chan), rest |-> <<>>]

\* ProducerChannel::send: the message joins the messages in flight
Send(chan, msg) == Append(chan, msg)

\* ConsumerChannel::receive on a channel that holds a message
Receive(chan) == [msg |-> Head(chan), rest |-> Tail(chan)]

\* ------------------------------------------------------------------------
\* exec facade (src/syscall.rs)
\* ------------------------------------------------------------------------

\* the executables the container image holds: execvpe succeeds on these
Executables == {"/bin/sh", "/usr/bin/env"}

ExecvpeOk(command) == command \in Executables

\* an exec whose parent branch of fork falls through to the final error
\* instead of returning the child's pid
SyscallExecFallsThrough(cmd, forkOk) ==
    LET argv == <<cmd.command>> \o cmd.args
        base == [argv |-> argv, env |-> cmd.env, exec_type |-> cmd.exec_type,
                 childExec |-> FALSE]
    IN  IF cmd.exec_type = FORK
        THEN IF forkOk
             THEN [base EXCEPT !.childExec = ExecvpeOk(cmd.command)]
                    @@ [effect |-> "fork", res |-> Err("exec")]
             ELSE base @@ [effect |-> "none", res |-> Err("fork")]
        ELSE IF ExecvpeOk(cmd.command)
             THEN base @@ [effect |-> "replace", res |-> Ok(<<>>)]
             ELSE base @@ [effect |-> "none", res |-> Err("execvpe")]

\* syscall::exec.  forkOk is the outcome of fork().  The effect is what
\* happens to the calling process: "fork" (returns Ok(child pid) in the
\* parent; childExec tells whether execvpe succeeds in the child), "replace"
\* (execvpe succeeded, the call never returns) or "none" (an error returns).
SyscallExec(cmd, forkOk) ==
    LET argv == <<cmd.command>> \o cmd.args
        base == [argv |-> argv, env |-> cmd.env, exec_type |-> cmd.exec_type,
                 childExec |-> FALSE]
    IN  IF cmd.exec_type = FORK
        THEN IF forkOk
             THEN [base EXCEPT !.childExec = ExecvpeOk(cmd.command)]
                    @@ [effect |-> "fork", res |-> Ok(<<>>)]
             ELSE base @@ [effect |-> "none", res |-> Err("fork")]
        ELSE IF ExecvpeOk(cmd.command)
             THEN base @@ [effect |-> "replace", res |-> Ok(<<>>)]
             ELSE base @@ [effect |-> "none", res |-> Err("execvpe")]

\* Container::exec, the exec of the callback in src/container.rs: argv is
\* command.args as they are, env is command.env; the same effects as
\* syscall::exec, but Ok(()) where that returns a pid
ContainerExec(cmd, forkOk) ==
    LET base == [argv |-> cmd.args, env |-> cmd.env, exec_type |-> cmd.exec_type,
                 childExec |-> FALSE]
    IN  IF cmd.exec_type = FORK
        THEN IF forkOk
             THEN [base EXCEPT !.childExec = ExecvpeOk(cmd.command)]
                    @@ [effect |-> "fork", res |-> Ok(<<>>)]
             ELSE base @@ [effect |-> "none", res |-> Err("fork")]
        ELSE IF ExecvpeOk(cmd.command)
             THEN base @@ [effect |-> "replace", res |-> Ok(<<>>)]
             ELSE base @@ [effect |-> "none", res |-> Err("execvpe")]

\* one iteration of Container::container_thread on a received message: Stop
\* breaks the loop and the callback returns 0; a Command is executed and an
\* error of exec panics in unwrap()
ContainerThread(msg, forkOk) ==
    IF msg.kind = "ACTION"
    THEN [next |-> "return", res |-> Ok(<<>>), exec |-> None]
    ELSE LET e == ContainerExec(msg.command, forkOk)
         IN  [next |-> IF e.effect = "replace" THEN "replaced"
                       ELSE IF e.res.ok THEN "continue" ELSE "panic",
              res  |-> e.res,
              exec |-> Some(e)]

\* ------------------------------------------------------------------------
\* Runtime (src/runtime.rs)
\* ------------------------------------------------------------------------

\* the container id: 32 hexadecimal characters
ContainerId ==
    <<"0","1","2","3","4","5","6","7","8","9","a","b","c","d","e","f",
      "f","e","d","c","b","a","9","8","7","6","5","4","3","2","1","0">>

\* chars().take(n)
Take(s, n) == SubSeq(s, 1, IF Len(s) < n THEN Len(s) ELSE n)

\* RuntimeOptions::default
DefaultOptions == [hostname |-> None, user |-> "root", group |-> "root", cwd |-> "/"]

\* Runtime::new
RuntimeNew(id, options) ==
    [id |-> id, hostname |-> UnwrapOr(options.hostname, Take(id, 12)), options |-> options]

\* UserInfo::from_name(user) inside the image
UserInfo(user) == [home |-> "/root", shell |-> "/bin/ash"]

\* an environment entry "key=value", as format!("{}={}", key, value) makes
\* it and as callers write it
EnvEntry(key, value) == <<key, value>>

\* the keys Runtime::inject_env_variables sets
InjectedKeys == {"container", "container_uuid", "HOME", "SHELL", "USER", "HOSTNAME", "PATH"}

\* SelectSeq without a lambda: the entries of env whose key is not injected
RECURSIVE DropInjected(_)
DropInjected(env) ==
    IF env = <<>> THEN <<>>
    ELSE IF Head(env)[1] \in InjectedKeys THEN DropInjected(Tail(env))
    ELSE <<Head(env)>> \o DropInjected(Tail(env))

\* the variant in which an injected entry takes the place of the caller's
\* entry of the same key
InjectEnvVariablesOverride(r, environment) ==
    LET info == UserInfo(r.options.user)
    IN  DropInjected(environment) \o
        << EnvEntry("container", "libcontainer-rs"),
           EnvEntry("container_uuid", r.id),
           EnvEntry("HOME", info.home),
           EnvEntry("SHELL", info.shell),
           EnvEntry("USER", "root"),
           EnvEntry("HOSTNAME", r.hostname),
           EnvEntry("PATH", "/usr/local/sbin:/usr/local/bin:/usr/sbin:/usr/bin:/sbin:/bin") >>

\* Runtime::inject_env_variables
InjectEnvVariables(r, environment) ==
    LET info == UserInfo(r.options.user)
    IN  environment \o
        << EnvEntry("container", "libcontainer-rs"),
           EnvEntry("container_uuid", r.id),
           EnvEntry("HOME", info.home),
           EnvEntry("SHELL", info.shell),
           EnvEntry("USER", "root"),
           EnvEntry("HOSTNAME", r.hostname),
           EnvEntry("PATH", "/usr/local/sbin:/usr/local/bin:/usr/sbin:/usr/bin:/sbin:/bin") >>

\* Option<file content>: /etc/hostname of the image
NoFile == [exists |-> FALSE, content |-> <<>>]

FileOf(content) == [exists |-> TRUE, content |-> content]

\* the variant that opens /etc/hostname without truncating it
SetupHostnameKeep(r, h, outcome) ==
    IF outcome = "sethostname" THEN [host |-> h, res |-> Err("sethostname")]
    ELSE IF outcome = "create"
    THEN [host |-> [h EXCEPT !.hostname = r.hostname], res |-> Err("File::create")]
    ELSE IF outcome = "write"
    THEN [host |-> [h EXCEPT !.hostname = r.hostname, !.etc = FileOf(h.etc.content)],
          res |-> Err("write_all")]
    ELSE [host |-> [hostname |-> r.hostname,
                    etc |-> FileOf(r.hostname
                                   \o SubSeq(h.etc.content, Len(r.hostname) + 1,
                                             Len(h.etc.content)))],
          res |-> Ok(<<>>)]

\* Runtime::setup_hostname: sethostname(hostname)?, File::create of
\* /etc/hostname (which empties an existing file)?, write_all(hostname)?;
\* outcome names the step that fails, or "ok"
SetupHostname(r, h, outcome) ==
    IF outcome = "sethostname" THEN [host |-> h, res |-> Err("sethostname")]
    ELSE IF outcome = "create"
    THEN [host |-> [h EXCEPT !.hostname = r.hostname], res |-> Err("File::create")]
    ELSE IF outcome = "write"
    THEN [host |-> [h EXCEPT !.hostname = r.hostname, !.etc = FileOf(<<>>)],
          res |-> Err("write_all")]
    ELSE [host |-> [hostname |-> r.hostname, etc |-> FileOf(r.hostname)],
          res |-> Ok(<<>>)]

\* Runtime::exec_command
ExecCommand(r, command, forkOk) ==
    SyscallExec([command EXCEPT !.env = InjectEnvVariables(r, command.env)], forkOk)

\* the event loop variant that does not leave the loop on Stop
EventLoopIgnoreStop(r, msg, forkOk) ==
    IF msg.kind = "ACTION"
    THEN [next |-> "continue", res |-> Ok(<<>>), exec |-> None]
    ELSE LET e == ExecCommand(r, msg.command, forkOk)
         IN  [next |-> IF e.effect = "replace" THEN "replaced"
                       ELSE IF e.res.ok THEN "continue" ELSE "return",
              res  |-> e.res,
              exec |-> Some(e)]

\* one iteration of Runtime::event_loop on a received message: Stop breaks
\* the loop (event_loop returns Ok); a Command is executed and any error of
\* exec_command is propagated out of the loop by `?`
EventLoop(r, msg, forkOk) ==
    IF msg.kind = "ACTION"
    THEN [next |-> "return", res |-> Ok(<<>>), exec |-> None]
    ELSE LET e == ExecCommand(r, msg.command, forkOk)
         IN  [next |-> IF e.effect = "replace" THEN "replaced"
                       ELSE IF e.res.ok THEN "continue" ELSE "return",
              res  |-> e.res,
              exec |-> Some(e)]

\* the variant that mounts /proc before the root is switched
BootStepsProcFirst ==
    <<"mount_rootfs_private", "fs.mount", "fs.root", "mount_procfs",
      "switch_rootfs", "mount_sysfs", "mount_devfs", "setup_hostname">>

\* the steps of Runtime::run before the event loop, in order
BootSteps ==
    <<"mount_rootfs_private", "fs.mount", "fs.root", "switch_rootfs",
      "mount_procfs", "mount_sysfs", "mount_devfs", "setup_hostname">>

\* the variant of `?` that drops the error and goes on
RunStepIgnore(r, step, res) ==
    LET logged == [r EXCEPT !.steps = Append(@, [step |-> step, ok |-> res.ok])]
    IN  IF r.boot + 1 = Len(BootSteps)
        THEN [logged EXCEPT !.boot = @ + 1, !.pc = "loop"]
        ELSE [logged EXCEPT !.boot = @ + 1]

\* one `step?;` line of Runtime::run applied to the child r: an error makes
\* run return it, success goes on to the next line, after the last line to
\* self.event_loop()
RunStep(r, step, res) ==
    LET logged == [r EXCEPT !.steps = Append(@, [step |-> step, ok |-> res.ok])]
    IN  IF ~res.ok
        THEN [logged EXCEPT !.pc = "returning", !.res = Err(step)]
        ELSE IF r.boot + 1 = Len(BootSteps)
        THEN [logged EXCEPT !.boot = @ + 1, !.pc = "loop"]
        ELSE [logged EXCEPT !.boot = @ + 1]

\* exit status of the cloned child for the value Runtime::run ends with: 0
\* when the loop was left by Stop (as container_thread returns 0), nonzero
\* for an error
ChildExitCode(res) == IF res.ok THEN 0 ELSE 1

\* ------------------------------------------------------------------------
\* Container handle (src/container.rs)
\* ------------------------------------------------------------------------

\* the variant of execute_in_container that defaults to REPLACE
ExecuteInContainerReplace(command, args, env, exec_type) ==
    CommandMsg(Command(command, args, UnwrapOr(env, <<>>), UnwrapOr(exec_type, REPLACE)))

\* the message Container::execute_in_container sends
ExecuteInContainer(command, args, env, exec_type) ==
    CommandMsg(Command(command, args, UnwrapOr(env, <<>>), UnwrapOr(exec_type, FORK)))

\* pid of the process that constructs the handle: Container.pid = Pid::this()
SupPid == 4000

\* pid of the cloned child
ChildPid == 4242

\* Option<Pid>
NoPid == [some |-> FALSE, val |-> 0]

\* the Container value as a process holds it
Handle(pid, container_pid) ==
    [pid |-> pid, container_pid |-> container_pid, container_forked_pids |-> <<>>]

\* the copy of the handle the cloned child has: clone() copies the memory
\* before start() assigns container_pid, and pids are pushed to
\* container_forked_pids by the process that forks, not by the supervisor
ChildHandle == Handle(SupPid, NoPid)

\* one thing a Container method did: a send, a kill, an umount, a waitpid
Effect(do, arg) == [do |-> do, arg |-> arg]

\* the variant without the assertion
AssertHostAlways(h, caller) == TRUE

\* assert!(self.pid == Pid::this())
AssertHost(h, caller) == h.pid = caller

\* what a Container method leaves when its assertion fails: it panics
\* before it does anything
Panicked(ch) ==
    [panicked |-> TRUE, chan |-> ch, msgs |-> <<>>, kills |-> {}, blocks |-> FALSE,
     fx |-> <<>>, res |-> Err("assertion failed: self.pid == Pid::this()")]

\* the processes that hold the consumer end of the channel: the Container
\* value owns consumer_channel, so the process that made it always does
ConsumerHolders(childAlive) ==
    {SupPid} \cup (IF childAlive THEN {ChildPid} ELSE {})

\* the variant that refuses to send before the handle was started
ContainerExecuteStarted(h, caller, q, ch, childAlive) ==
    IF ~AssertHost(h, caller) THEN Panicked(ch)
    ELSE IF ~h.container_pid.some
    THEN [panicked |-> FALSE, chan |-> ch, msgs |-> <<>>, kills |-> {},
          blocks |-> FALSE, fx |-> <<>>, res |-> Err("Container not started")]
    ELSE LET msg == ExecuteInContainer(q.command, q.args, q.env, q.exec_type)
         IN  [panicked |-> FALSE, chan |-> Send(ch, msg), msgs |-> <<msg>>,
              kills |-> {}, blocks |-> FALSE,
              fx |-> <<Effect("send", "COMMAND")>>, res |-> Ok(<<>>)]

\* the processes that hold the producer end: the supervisor while it has
\* the handle, and the cloned child, whose memory holds a copy of the whole
\* Container value with the descriptor open
ProducerHolders(supHolds, childAlive) ==
    (IF supHolds THEN {SupPid} ELSE {}) \cup (IF childAlive THEN {ChildPid} ELSE {})

\* receive() on an empty channel waits while somebody can still send
ReceiveBlocks(ch, holders) == ch = <<>> /\ holders # {}

\* Container::execute_in_container called on handle h by process caller
ContainerExecute(h, caller, q, ch, childAlive) ==
    IF ~AssertHost(h, caller) THEN Panicked(ch)
    ELSE LET msg == ExecuteInContainer(q.command, q.args, q.env, q.exec_type)
         IN  IF ConsumerHolders(childAlive) = {}
             THEN [panicked |-> FALSE, chan |-> ch, msgs |-> <<>>, kills |-> {},
                   blocks |-> FALSE, fx |-> <<Effect("send", "COMMAND")>>,
                   res |-> Err("send")]
             ELSE [panicked |-> FALSE, chan |-> Send(ch, msg), msgs |-> <<msg>>,
                   kills |-> {}, blocks |-> FALSE,
                   fx |-> <<Effect("send", "COMMAND")>>, res |-> Ok(<<>>)]

\* the variant that kills
StopSignalKill == "SIGKILL"

\* the signal Container::stop sends
StopSignal == "SIGTERM"

\* the variant that returns after the signal, leaving the filesystem mounted
ContainerStopNoUmount(h, caller, ch, childAlive, childThere, umountOk) ==
    IF ~AssertHost(h, caller) THEN Panicked(ch)
    ELSE [panicked |-> FALSE, chan |-> Send(ch, StopMsg), msgs |-> <<StopMsg>>,
          kills |-> IF h.container_pid.some /\ childThere THEN {StopSignal} ELSE {},
          blocks |-> FALSE,
          fx |-> <<Effect("send", "STOP")>>
                 \o (IF h.container_pid.some
                     THEN <<Effect("kill", StopSignal)>> ELSE <<>>),
          res |-> IF h.container_pid.some /\ ~childThere
                  THEN Err("ESRCH") ELSE Ok(<<>>)]

\* Container::stop called on handle h by process caller: send Stop, SIGTERM
\* every pid in container_forked_pids, SIGTERM the container child when
\* container_pid is Some (ESRCH when that process is gone), then
\* self.fs.umount(); each step returns its error
ContainerStop(h, caller, ch, childAlive, childThere, umountOk) ==
    IF ~AssertHost(h, caller) THEN Panicked(ch)
    ELSE IF ConsumerHolders(childAlive) = {}
    THEN [panicked |-> FALSE, chan |-> ch, msgs |-> <<>>, kills |-> {},
          blocks |-> FALSE, fx |-> <<Effect("send", "STOP")>>, res |-> Err("send")]
    ELSE LET forked == [i \in 1..Len(h.container_forked_pids) |->
                            Effect("kill", StopSignal)]
             sends  == <<Effect("send", "STOP")>> \o forked
         IN  IF h.container_pid.some /\ ~childThere
             THEN [panicked |-> FALSE, chan |-> Send(ch, StopMsg), msgs |-> <<StopMsg>>,
                   kills |-> {}, blocks |-> FALSE,
                   fx |-> sends \o <<Effect("kill", StopSignal)>>,
                   res |-> Err("ESRCH")]
             ELSE [panicked |-> FALSE, chan |-> Send(ch, StopMsg), msgs |-> <<StopMsg>>,
                   kills |-> IF h.container_pid.some THEN {StopSignal} ELSE {},
                   blocks |-> FALSE,
                   fx |-> sends
                          \o (IF h.container_pid.some
                              THEN <<Effect("kill", StopSignal)>> ELSE <<>>)
                          \o <<Effect("umount", "")>>,
                   res |-> IF umountOk THEN Ok(<<>>) ELSE Err("fs.umount")]

\* what Container::start does in the calling process, in order: it mounts
\* the driver it owns, and when that succeeded it clones the child
StartEffects(outcome) ==
    IF outcome = "fs.mount"
    THEN <<Effect("mount", "")>>
    ELSE <<Effect("mount", ""), Effect("clone", "")>>

\* the variant that records the child pid before it knows of a child
ContainerStartEager(h, outcome) ==
    [container_pid |-> Some(ChildPid),
     spawned |-> outcome = "ok",
     fx  |-> StartEffects(outcome),
     res |-> IF outcome = "ok" THEN Ok(<<>>) ELSE Err(outcome)]

\* Container::start: self.fs.mount()?, then clone(...)?, then
\* self.container_pid = Some(pid); an error leaves container_pid as it was
ContainerStart(h, outcome) ==
    IF outcome = "ok"
    THEN [container_pid |-> Some(ChildPid), spawned |-> TRUE,
          fx |-> StartEffects(outcome), res |-> Ok(<<>>)]
    ELSE [container_pid |-> h.container_pid, spawned |-> FALSE,
          fx |-> StartEffects(outcome), res |-> Err(outcome)]

\* wait_for_container called on handle h by process caller: fails when the
\* child was never started, otherwise blocks in waitpid(child)
ContainerWait(h, caller, ch, childThere) ==
    IF ~AssertHost(h, caller) THEN Panicked(ch)
    ELSE IF ~h.container_pid.some
    THEN [panicked |-> FALSE, chan |-> ch, msgs |-> <<>>, kills |-> {},
          blocks |-> FALSE, fx |-> <<>>, res |-> Err("Container not started")]
    ELSE IF ~childThere
    THEN [panicked |-> FALSE, chan |-> ch, msgs |-> <<>>, kills |-> {},
          blocks |-> FALSE, fx |-> <<Effect("waitpid", "")>>, res |-> Err("ECHILD")]
    ELSE [panicked |-> FALSE, chan |-> ch, msgs |-> <<>>, kills |-> {},
          blocks |-> TRUE, fx |-> <<Effect("waitpid", "")>>, res |-> Ok(<<>>)]

\* ------------------------------------------------------------------------
\* State
\* ------------------------------------------------------------------------

VARIABLES
    drv,        \* the OverlayDriver value: layers, target, Option<Mount>
    dirs,       \* directories that exist under the target
    mtab,       \* kernel mount table of the namespace the driver acts in
    drvLast,    \* the last driver call: operation, result, state it started from
    drvPrev,    \* the driver call before that: operation and result
    drvMounted, \* history: a mount() has succeeded and no umount() was called since
    chan,       \* messages in flight on the control channel, oldest first
    sent,       \* history: every message the supervisor sent, in order
    preBoot,    \* history: how many messages were sent before bootstrap was over
    received,   \* history: every message receive() returned to the runtime
    execs,      \* history: every call of syscall::exec the runtime made
    procs,      \* the children forked by FORK commands
    rt,         \* the container child: position, bootstrap progress, result, status
    sup,        \* the supervisor: position, Container.container_pid, last result
    sigs,       \* signals sent to the container child and not yet acted on
    rtm,        \* the Runtime value the child runs: id, hostname, options
    host,       \* the child's UTS hostname and the image's /etc/hostname
    call        \* history: the last call of a Container method: who, what, its effects

drvVars == <<drv, dirs, mtab, drvLast, drvPrev, drvMounted>>

chanVars == <<chan, sent, preBoot, received>>

vars == <<drvVars, chanVars, execs, procs, rt, sup, sigs, rtm, host, call>>

NoCall ==
    [op |-> "none", res |-> Ok(<<>>), preMount |-> NoneMount, preMtab |-> <<>>,
     preDirs |-> {}]

CallOf(c) == [op |-> c.op, ok |-> c.res.ok]

\* the directory trees a target can be found in: absent, or present with any
\* of the three subdirectories left over from an earlier run
DirStates ==
    {{}} \cup {{Target} \cup S : S \in SUBSET {Join(Target, MERGE_DIR),
                                                Join(Target, UPPER_DIR),
                                                Join(Target, WORK_DIR)}}

\* Runtime::new with the default options
TheRuntime == RuntimeNew(ContainerId, DefaultOptions)

\* Option<ExecType>
NoExecType == [some |-> FALSE, val |-> ""]

\* the arguments of one execute_in_container call
Request(command, args, env, exec_type) ==
    [command |-> command, args |-> args, env |-> env, exec_type |-> exec_type]

NoRequest == Request("", <<>>, None, NoExecType)

\* the record of one call of a Container method
CallBy(by, op, res, panicked, fx) ==
    [by |-> by, op |-> op, ok |-> res.ok, panicked |-> panicked, fx |-> fx]

\* Container::new: a fresh channel, container_pid None, no child yet; body
\* is the code the clone callback will run
ProtocolStart(body) ==
    /\ chan = <<>>
    /\ sent = <<>>
    /\ preBoot = 0
    /\ received = <<>>
    /\ execs = <<>>
    /\ procs = <<>>
    /\ rt = [pc |-> "none", boot |-> 0, res |-> Ok(<<>>), status |-> 0,
             signal |-> "", reaped |-> FALSE, body |-> body, steps |-> <<>>]
    /\ sup = [pc |-> "idle", container_pid |-> NoPid, last |-> Ok(<<>>), op |-> "new",
              req |-> NoRequest]
    /\ sigs = {}
    /\ call = CallBy(SupPid, "new", Ok(<<>>), FALSE, <<>>)

\* the hostname a new UTS namespace starts with: its parent's
ParentHostname == <<"h", "o", "s", "t">>

\* what is in /etc/hostname of the image
ImageHostname ==
    <<"a", "l", "p", "i", "n", "e", "-", "b", "a", "s", "e", "-", "i", "m", "a", "g", "e">>

\* the child's hostname state before Runtime::run
FreshHost(etc) == [hostname |-> ParentHostname, etc |-> etc]

\* the handle whose child runs Runtime::run, made with the default options
InitProtocol ==
    /\ ProtocolStart("runtime")
    /\ rtm = TheRuntime
    /\ host = FreshHost(NoFile)

protoVars == <<chanVars, execs, procs, rt, sup, sigs, rtm, host, call>>

\* OverlayDriver::new on a target in any of these states; nothing mounted yet
Init ==
    /\ drv = OverlayNew(Layers, Target)
    /\ dirs \in DirStates
    /\ mtab = <<>>
    /\ drvLast = NoCall
    /\ drvPrev = CallOf(NoCall)
    /\ drvMounted = FALSE
    /\ InitProtocol

\* the container scenario: the target is absent or left over from a run
InitContainer ==
    /\ Init
    /\ dirs \in {{}, OverlayDirs(drv, {}).dirs}

\* the container scenario with the callback of src/container.rs: the child
\* runs Container::container_thread
InitThread ==
    /\ drv = OverlayNew(Layers, Target)
    /\ dirs \in {{}, OverlayDirs(drv, {}).dirs}
    /\ mtab = <<>>
    /\ drvLast = NoCall
    /\ drvPrev = CallOf(NoCall)
    /\ drvMounted = FALSE
    /\ ProtocolStart("container_thread")
    /\ rtm = TheRuntime
    /\ host = FreshHost(NoFile)

\* a container id shorter than twelve characters
ShortId == <<"c", "0", "f", "f", "e">>

\* hostnames callers configure: a short one and one longer than twelve
Hostnames ==
    { <<"w", "e", "b">>,
      <<"b", "u", "i", "l", "d", "-", "w", "o", "r", "k", "e", "r", "1">> }

\* the Runtime values of the hostname scenario: Runtime::new on each id
\* with and without a configured hostname
Runtimes ==
    { RuntimeNew(id, [DefaultOptions EXCEPT !.hostname = hn]) :
        id \in {ContainerId, ShortId}, hn \in {None} \cup {Some(n) : n \in Hostnames} }

\* the hostname scenario: any of these runtimes, in an image with or
\* without an /etc/hostname
InitHost ==
    /\ drv = OverlayNew(Layers, Target)
    /\ dirs = {}
    /\ mtab = <<>>
    /\ drvLast = NoCall
    /\ drvPrev = CallOf(NoCall)
    /\ drvMounted = FALSE
    /\ ProtocolStart("runtime")
    /\ rtm \in Runtimes
    /\ host \in {FreshHost(NoFile), FreshHost(FileOf(ImageHostname))}

\* a client calls mount()
DrvMount ==
    /\ Len(mtab) < MaxMounts
    /\ \E kernelOk \in BOOLEAN :
         LET r == OverlayMount(drv, dirs, mtab, kernelOk)
         IN  /\ drv' = r.drv
             /\ dirs' = r.dirs
             /\ mtab' = r.mtab
             /\ drvLast' = [op |-> "mount", res |-> r.res,
                            preMount |-> drv.mount, preMtab |-> mtab,
                            preDirs |-> dirs]
             /\ drvPrev' = CallOf(drvLast)
             /\ drvMounted' = (r.res.ok \/ drvMounted)
    /\ UNCHANGED protoVars

\* a client calls umount()
DrvUmount ==
    LET r == OverlayUmount(drv, mtab)
    IN  /\ drv' = r.drv
        /\ mtab' = r.mtab
        /\ drvLast' = [op |-> "umount", res |-> r.res,
                       preMount |-> drv.mount, preMtab |-> mtab,
                            preDirs |-> dirs]
        /\ drvPrev' = CallOf(drvLast)
        /\ drvMounted' = FALSE
        /\ UNCHANGED <<dirs, protoVars>>

\* a client calls root()
DrvRoot ==
    /\ drvLast' = [op |-> "root", res |-> OverlayRoot(drv),
                   preMount |-> drv.mount, preMtab |-> mtab,
                            preDirs |-> dirs]
    /\ drvPrev' = CallOf(drvLast)
    /\ UNCHANGED <<drv, dirs, mtab, drvMounted, protoVars>>

NextDriver == DrvMount \/ DrvUmount \/ DrvRoot

SpecDriver == Init /\ [][NextDriver]_vars

\* ------------------------------------------------------------------------
\* The supervisor process
\* ------------------------------------------------------------------------

\* the execute_in_container calls callers make: an executable of the image
\* or a missing one, with and without arguments, env and exec_type
Requests ==
    { Request("/bin/sh",      <<>>,             None,                NoExecType),
      Request("/bin/sh",      <<"-c", "true">>, Some(<<EnvEntry("FOO", "bar")>>), Some(REPLACE)),
      Request("/usr/bin/env", <<>>,
              Some(<<EnvEntry("PATH", "/opt/bin"), EnvEntry("FOO", "bar")>>), Some(FORK)),
      Request("/bin/missing", <<>>,             None,                Some(REPLACE)),
      Request("/bin/missing", <<"-c", "true">>, Some(<<EnvEntry("FOO", "bar")>>), NoExecType) }

\* the child has not reached the event loop yet
BeforeLoop(r) == r.pc \in {"none", "boot"}

Alive(r) == r.pc \in {"boot", "loop", "returning", "program"}

Terminated(r) == r.pc \in {"exited", "killed"}

\* the child process exists: running, or terminated and not yet reaped
ChildThere(r) == r.pc # "none" /\ ~r.reaped

\* Container::start.  self.fs.mount() on the handle's own filesystem object
\* and clone() can each fail; on success container_pid is set and the child
\* starts: with Runtime::run (src/runtime.rs), or, when the body is the
\* callback of src/container.rs, container_thread, directly with its loop.
\* Callers start a handle once.
SupStart ==
    /\ sup.pc = "idle"
    /\ ~sup.container_pid.some
    /\ \E outcome \in {"ok", "fs.mount", "clone"} :
         LET out == ContainerStart(Handle(SupPid, sup.container_pid), outcome)
         IN  /\ sup' = [sup EXCEPT !.container_pid = out.container_pid,
                                   !.last = out.res, !.op = "start"]
             /\ rt' = IF ~out.spawned THEN rt
                      ELSE IF rt.body = "runtime" THEN [rt EXCEPT !.pc = "boot"]
                      ELSE [rt EXCEPT !.pc = "loop"]
             /\ call' = CallBy(SupPid, "start", out.res, FALSE, out.fx)
    /\ UNCHANGED <<drvVars, rtm, host, chanVars, execs, procs, sigs>>

\* what a call of execute_in_container or stop by any process does to the
\* channel and to the signals pending for the child
Delivered(out) ==
    /\ chan' = out.chan
    /\ sent' = sent \o out.msgs
    /\ preBoot' = IF BeforeLoop(rt) THEN preBoot + Len(out.msgs) ELSE preBoot
    /\ sigs' = IF Alive(rt) THEN sigs \cup out.kills ELSE sigs

\* Container::execute_in_container, called by the supervisor process
SupExecute ==
    /\ sup.pc = "idle"
    /\ Len(sent) < MaxSends
    /\ \E q \in Requests :
         LET out == ContainerExecute(Handle(SupPid, sup.container_pid), SupPid, q,
                                     chan, Alive(rt))
         IN  /\ Delivered(out)
             /\ sup' = [sup EXCEPT !.last = out.res, !.op = "execute", !.req = q,
                                   !.pc = IF out.panicked THEN "panicked" ELSE @]
             /\ call' = CallBy(SupPid, "execute", out.res, out.panicked, out.fx)
    /\ UNCHANGED <<drvVars, rtm, host, received, execs, procs, rt>>

\* Container::stop, called by the supervisor process
SupStop ==
    /\ sup.pc = "idle"
    /\ Len(sent) < MaxSends
    /\ \E umountOk \in BOOLEAN :
         LET out == ContainerStop(Handle(SupPid, sup.container_pid), SupPid, chan,
                                  Alive(rt), ChildThere(rt), umountOk)
         IN  /\ Delivered(out)
             /\ sup' = [sup EXCEPT !.last = out.res, !.op = "stop",
                                   !.pc = IF out.panicked THEN "panicked" ELSE @]
             /\ call' = CallBy(SupPid, "stop", out.res, out.panicked, out.fx)
    /\ UNCHANGED <<drvVars, rtm, host, received, execs, procs, rt>>

\* wait_for_container, called by the supervisor process
SupWait ==
    /\ sup.pc = "idle"
    /\ LET out == ContainerWait(Handle(SupPid, sup.container_pid), SupPid, chan,
                                ChildThere(rt))
       IN  /\ sup' = [sup EXCEPT !.op = "wait",
                                 !.last = IF out.blocks THEN @ ELSE out.res,
                                 !.pc = IF out.panicked THEN "panicked"
                                        ELSE IF out.blocks THEN "waiting" ELSE @]
           /\ call' = CallBy(SupPid, "wait", out.res, out.panicked, out.fx)
    /\ UNCHANGED <<drvVars, rtm, host, chanVars, execs, procs, rt, sigs>>

\* waitpid returns once the child has terminated, and reaps it
SupWaitReturn ==
    /\ sup.pc = "waiting"
    /\ Terminated(rt)
    /\ sup' = [sup EXCEPT !.pc = "idle", !.last = Ok(<<>>)]
    /\ rt' = [rt EXCEPT !.reaped = TRUE]
    /\ UNCHANGED <<drvVars, rtm, host, chanVars, execs, procs, sigs, call>>

\* ------------------------------------------------------------------------
\* The container child
\* ------------------------------------------------------------------------

\* a panic ends the child: it unwinds to exit code 101 or aborts, as the
\* build has it
Panic(r, how) ==
    IF how = "exit"
    THEN [r EXCEPT !.pc = "exited", !.status = 101]
    ELSE [r EXCEPT !.pc = "killed", !.signal = "SIGABRT"]

\* the end of a PID namespace's init kills every process left in it
NamespaceDown(ps) ==
    [i \in 1..Len(ps) |->
        IF ps[i].state \in {"running", "exec_failed", "looping"}
        THEN [ps[i] EXCEPT !.state = "killed"] ELSE ps[i]]

\* a forked child that stays in its copy of the event loop
ForkedChildLoops(childExec) ==
    IF childExec THEN "running" ELSE "looping"

\* what the child of a FORK-mode exec does after fork: it runs the program
\* when execvpe succeeds; when execvpe fails the error leaves exec with `?`
\* and the child's copy of the event loop with it
ForkedChild(childExec) ==
    IF childExec THEN "running" ELSE "exec_failed"

\* one bootstrap step of Runtime::run; a failed step makes run return its
\* error, the last successful step enters the event loop
RtBoot ==
    /\ rt.pc = "boot"
    /\ \E ok \in BOOLEAN, fails \in {"sethostname", "create", "write"} :
         LET step == BootSteps[rt.boot + 1]
             m    == OverlayMount(drv, dirs, mtab, ok)
             hn   == SetupHostname(rtm, host, IF ok THEN "ok" ELSE fails)
             res  == IF step = "fs.mount" THEN m.res
                     ELSE IF step = "fs.root" THEN OverlayRoot(drv)
                     ELSE IF step = "setup_hostname" THEN hn.res
                     ELSE IF ok THEN Ok(<<>>) ELSE Err(step)
         IN  /\ IF step = "fs.mount"
                THEN /\ drv' = m.drv
                     /\ dirs' = m.dirs
                     /\ mtab' = m.mtab
                ELSE UNCHANGED <<drv, dirs, mtab>>
             /\ host' = IF step = "setup_hostname" THEN hn.host ELSE host
             /\ rt' = RunStep(rt, step, res)
    /\ UNCHANGED <<drvLast, drvPrev, drvMounted, chanVars, execs, procs, sup, sigs,
                   rtm, call>>

\* one iteration of the event loop: receive() returns the oldest message in
\* flight and the message is dispatched; it blocks while there is none and
\* a producer end is open, and fails when no producer end is left: the
\* error leaves event_loop by `?`, and panics container_thread in unwrap()
RtReceive ==
    /\ rt.pc = "loop"
    /\ ~ReceiveBlocks(chan, ProducerHolders(sup.pc # "gone", Alive(rt)))
    /\ \E forkOk \in BOOLEAN, how \in {"exit", "abort"} :
       IF chan = <<>>
       THEN /\ rt' = IF rt.body = "runtime"
                     THEN [rt EXCEPT !.pc = "returning", !.res = Err("receive")]
                     ELSE Panic(rt, how)
            /\ procs' = IF rt.body = "runtime" THEN procs ELSE NamespaceDown(procs)
            /\ UNCHANGED <<chan, received, execs>>
       ELSE
         LET m   == Receive(chan)
             out == IF rt.body = "runtime"
                    THEN EventLoop(rtm, m.msg, forkOk)
                    ELSE ContainerThread(m.msg, forkOk)
         IN  /\ chan' = m.rest
             /\ received' = Append(received, m.msg)
             /\ execs' = IF out.exec.some
                         THEN Append(execs, [idx    |-> Len(received) + 1,
                                             argv   |-> out.exec.val.argv,
                                             env    |-> out.exec.val.env,
                                             exec_type |-> out.exec.val.exec_type,
                                             effect |-> out.exec.val.effect,
                                             ok     |-> out.exec.val.res.ok])
                         ELSE execs
             /\ procs' = IF out.exec.some /\ out.exec.val.effect = "fork"
                         THEN Append(procs, [argv  |-> out.exec.val.argv,
                                             state |-> ForkedChild(out.exec.val.childExec)])
                         ELSE IF out.next = "panic" THEN NamespaceDown(procs)
                         ELSE procs
             /\ rt' = IF out.next = "return"
                      THEN [rt EXCEPT !.pc = "returning", !.res = out.res]
                      ELSE IF out.next = "replaced"
                      THEN [rt EXCEPT !.pc = "program"]
                      ELSE IF out.next = "panic"
                      THEN Panic(rt, how)
                      ELSE rt
    /\ UNCHANGED <<drvVars, rtm, host, sent, preBoot, sup, sigs, call>>

\* Runtime::run has returned: the child exits with the code of its result
RtExit ==
    /\ rt.pc = "returning"
    /\ rt' = [rt EXCEPT !.pc = "exited", !.status = ChildExitCode(rt.res)]
    /\ procs' = NamespaceDown(procs)
    /\ UNCHANGED <<drvVars, rtm, host, chanVars, execs, sup, sigs, call>>

\* the program a REPLACE command put in place of the runtime exits
ProgramExit ==
    /\ rt.pc = "program"
    /\ \E code \in {0, 1} :
         rt' = [rt EXCEPT !.pc = "exited", !.status = code]
    /\ procs' = NamespaceDown(procs)
    /\ UNCHANGED <<drvVars, rtm, host, chanVars, execs, sup, sigs, call>>

\* a forked child ends: the program it runs exits, or its failed execvpe
\* makes it return out of its copy of the event loop; nobody reaps it.
\* A forked child still in a copy of the event loop would take the next
\* message from the consumer end it inherited.
ForkedExit ==
    /\ \E i \in 1..Len(procs) :
         IF procs[i].state = "looping"
         THEN /\ chan # <<>>
              /\ chan' = Receive(chan).rest
              /\ UNCHANGED <<procs, sent, preBoot, received>>
         ELSE /\ procs[i].state \in {"running", "exec_failed"}
              /\ procs' = [procs EXCEPT ![i].state = "zombie"]
              /\ UNCHANGED chanVars
    /\ UNCHANGED <<drvVars, rtm, host, execs, rt, sup, sigs, call>>

\* a signal sent to the child is acted on.  The child is the init of its
\* PID namespace: SIGKILL from the supervisor always ends it, any other
\* signal only when the running image has a handler or default action for it.
RtSignal ==
    /\ \E s \in sigs, effective \in BOOLEAN :
         /\ sigs' = sigs \ {s}
         /\ IF Alive(rt) /\ (effective \/ s = "SIGKILL")
            THEN /\ rt' = [rt EXCEPT !.pc = "killed", !.signal = s]
                 /\ procs' = NamespaceDown(procs)
            ELSE UNCHANGED <<rt, procs>>
    /\ UNCHANGED <<drvVars, rtm, host, chanVars, execs, sup, call>>

\* a Container method called by code that runs in the cloned child, on the
\* child's copy of the handle
ChildCalls(op, out) ==
    /\ Delivered(out)
    /\ call' = CallBy(ChildPid, op, out.res, out.panicked, out.fx)
    /\ IF out.panicked
       THEN /\ \E how \in {"exit", "abort"} : rt' = Panic(rt, how)
            /\ procs' = NamespaceDown(procs)
       ELSE UNCHANGED <<rt, procs>>
    /\ UNCHANGED <<drvVars, rtm, host, received, execs, sup>>

\* execute_in_container called in the child
ChildExecute ==
    /\ rt.pc \in {"boot", "loop"}
    /\ Len(sent) < MaxSends
    /\ \E q \in Requests :
         ChildCalls("execute", ContainerExecute(ChildHandle, ChildPid, q, chan, TRUE))

\* stop called in the child
ChildStop ==
    /\ rt.pc \in {"boot", "loop"}
    /\ Len(sent) < MaxSends
    /\ \E umountOk \in BOOLEAN :
         ChildCalls("stop", ContainerStop(ChildHandle, ChildPid, chan, TRUE, TRUE, umountOk))

\* wait_for_container called in the child
ChildWait ==
    /\ rt.pc \in {"boot", "loop"}
    /\ ChildCalls("wait", ContainerWait(ChildHandle, ChildPid, chan, TRUE))

Next ==
    \/ SupStart
    \/ SupExecute
    \/ SupStop
    \/ SupWait
    \/ SupWaitReturn
    \/ RtBoot
    \/ RtReceive
    \/ RtExit
    \/ ProgramExit
    \/ ForkedExit
    \/ RtSignal
    \/ ChildExecute
    \/ ChildStop
    \/ ChildWait

\* the supervisor lets go of the handle or exits: its descriptors of both
\* channel ends are closed; Container has no Drop that stops the child
SupExit ==
    /\ sup.pc = "idle"
    /\ sup' = [sup EXCEPT !.pc = "gone", !.op = "drop", !.last = Ok(<<>>)]
    /\ call' = CallBy(SupPid, "drop", Ok(<<>>), FALSE, <<>>)
    /\ UNCHANGED <<drvVars, rtm, host, chanVars, execs, procs, rt, sigs>>

Spec == InitContainer /\ [][Next]_vars

\* the steps of a container whose child runs container_thread: there is no
\* bootstrap
NextThread ==
    \/ SupStart
    \/ SupExecute
    \/ SupStop
    \/ SupWait
    \/ SupWaitReturn
    \/ RtReceive
    \/ RtExit
    \/ ProgramExit
    \/ ForkedExit
    \/ RtSignal
    \/ ChildExecute
    \/ ChildStop
    \/ ChildWait

SpecThread == InitThread /\ [][NextThread]_vars

\* the steps of the hostname scenario: the handle is started, Commands are
\* sent, the child boots, serves them and ends
NextHost ==
    \/ SupStart
    \/ SupExecute
    \/ RtBoot
    \/ RtReceive
    \/ RtExit
    \/ ProgramExit

SpecHost == InitHost /\ [][NextHost]_vars

\* the steps of a container whose supervisor may go away
NextLive ==
    \/ SupStart
    \/ SupExecute
    \/ SupStop
    \/ SupExit
    \/ RtBoot
    \/ RtReceive
    \/ RtExit
    \/ ProgramExit
    \/ ForkedExit
    \/ RtSignal

\* the child is a process of its own: the scheduler runs it whenever it can
\* take a step, and a pending signal is delivered
SpecLive ==
    /\ InitContainer
    /\ [][NextLive]_vars
    /\ WF_vars(RtBoot)
    /\ WF_vars(RtReceive)
    /\ WF_vars(RtExit)
    /\ WF_vars(RtSignal)

\* ------------------------------------------------------------------------
\* Properties of the control protocol (checked under Spec)
\* ------------------------------------------------------------------------

ExecsOf(i) == {j \in 1..Len(execs) : execs[j].idx = i}

\* C1: once the event loop has received Action(Stop), the loop is broken
\* without any exec for it, run returns Ok and the child's exit status is 0;
\* no message is received after the Stop, so what is queued behind it is
\* never executed.
StopEndsLoop ==
    \A i \in 1..Len(received) :
        received[i].kind = "ACTION" =>
            /\ i = Len(received)
            /\ ExecsOf(i) = {}
            /\ rt.pc \in {"returning", "exited", "killed"}
            /\ rt.res.ok
            /\ (rt.pc = "exited" => rt.status = 0)

\* the child has exited after a Stop with another message still queued
StopEndsLoopWitness ==
    /\ Len(received) >= 1
    /\ received[Len(received)].kind = "ACTION"
    /\ rt.pc = "exited"
    /\ rt.status = 0
    /\ chan # <<>>

ChannelFifo == sent = received \o chan

\* two different messages have gone through the channel
ChannelFifoWitness ==
    /\ Len(received) = 2
    /\ received[1] # received[2]

\* C4 (as claimed): after a REPLACE Command whose execvpe failed, the runtime
\* is still in its event loop, ready to receive the next message.
ReplaceFailureKeepsLoop ==
    \A j \in 1..Len(execs) :
        (execs[j].exec_type = REPLACE /\ ~execs[j].ok /\ execs[j].idx = Len(received))
            => rt.pc \in {"loop", "killed"}

\* the scenario start(); execute_in_container("/bin/sh", [], None, None);
\* wait_for_container()
ShellRequest == Request("/bin/sh", <<>>, None, NoExecType)

ShellScenario ==
    /\ sup.container_pid.some
    /\ sup.req = ShellRequest
    /\ Len(sent) = 1
    /\ sup.op = "wait"
    /\ sup.pc = "waiting"

SentFor(q, dflt) ==
    CommandMsg(Command(q.command, q.args,
                       IF q.env.some THEN q.env.val ELSE <<>>,
                       IF q.exec_type.some THEN q.exec_type.val ELSE dflt))

\* C6 (as claimed): env = None is sent as the empty list and exec_type = None
\* as REPLACE; supplied values are sent unchanged.
ExecuteDefaultsReplace ==
    sup.op = "execute" => sent[Len(sent)] = SentFor(sup.req, REPLACE)

\* C6 (amended): env = None is sent as the empty list and exec_type = None as
\* FORK; supplied values are sent unchanged.
ExecuteDefaultsFork ==
    sup.op = "execute" => sent[Len(sent)] = SentFor(sup.req, FORK)

\* a call with env = None and exec_type = None has been sent
ExecuteDefaultsWitness ==
    /\ sup.op = "execute"
    /\ ~sup.req.env.some
    /\ ~sup.req.exec_type.some
    /\ sent[Len(sent)].command.exec_type = FORK
    /\ sent[Len(sent)].command.env = <<>>

\* ------------------------------------------------------------------------
\* Properties of the overlay driver (checked under SpecDriver)
\* ------------------------------------------------------------------------

MergePath == Join(Target, MERGE_DIR)

\* C7: root() returns T/merge exactly when a mount() has succeeded and no
\* umount() was called since; on a fresh driver and after every umount()
\* it fails; a root() call returns just that.
RootVisibility ==
    /\ drvMounted <=> (OverlayRoot(drv) = Ok(MergePath))
    /\ ~drvMounted => ~OverlayRoot(drv).ok
    /\ drvLast.op = "root" =>
         drvLast.res = IF drvMounted THEN Ok(MergePath)
                       ELSE Err("Filesystem is not mounted")
    /\ drvLast.op = "umount" => ~OverlayRoot(drv).ok
    /\ (drvLast.op = "mount" /\ drvLast.res.ok) => OverlayRoot(drv) = Ok(MergePath)

\* root() has failed right after a successful umount() of a mounted driver
RootVisibilityWitness ==
    /\ drvLast.op = "root"
    /\ ~drvLast.res.ok
    /\ drvPrev = [op |-> "umount", ok |-> TRUE]
    /\ dirs = OverlayDirs(drv, {}).dirs

\* C8 (as claimed): mount() on a driver whose handle is Some fails, adds no
\* kernel mount and leaves the handle as it was.
DoubleMountFails ==
    (drvLast.op = "mount" /\ drvLast.preMount.some) =>
        /\ ~drvLast.res.ok
        /\ mtab = drvLast.preMtab
        /\ drv.mount = drvLast.preMount

\* C9 (as claimed): an umount() that follows a successful mount() succeeds
\* and leaves T/merge unmounted, no kernel mount on T/merge and the handle
\* None.
MountUmountRoundTrip ==
    (drvLast.op = "umount" /\ drvPrev = [op |-> "mount", ok |-> TRUE]) =>
        /\ drvLast.res.ok
        /\ ~IsMountPoint(mtab, MergePath)
        /\ \A i \in 1..Len(mtab) : mtab[i].target # MergePath
        /\ ~drv.mount.some

UmountedBefore(c) ==
    /\ c.op = "umount"
    /\ ~c.preMount.some
    /\ ~IsMountPoint(c.preMtab, MergePath)

\* C10 (as claimed): umount() on an unmounted driver with nothing mounted at
\* T/merge returns success and changes neither the driver nor the mounts.
UmountUnmountedNoop ==
    UmountedBefore(drvLast) =>
        /\ drvLast.res.ok
        /\ drv.mount = drvLast.preMount
        /\ mtab = drvLast.preMtab

\* C10 (amended): umount() on an unmounted driver with nothing mounted at
\* T/merge returns the EINVAL of umount2(T/merge) and changes neither the
\* driver nor the mounts.
UmountUnmountedFails ==
    UmountedBefore(drvLast) =>
        /\ ~drvLast.res.ok
        /\ drvLast.res.err = "EINVAL"
        /\ drv.mount = drvLast.preMount
        /\ mtab = drvLast.preMtab

\* umount() was called on a fresh driver
UmountUnmountedWitness ==
    /\ UmountedBefore(drvLast)
    /\ drvPrev.op = "none"
    /\ ~drvLast.res.ok

\* the directories of the overlay: the target and its three subdirectories
OverlayTree ==
    {Target, Join(Target, MERGE_DIR), Join(Target, UPPER_DIR), Join(Target, WORK_DIR)}

\* C11: whichever of T, T/merge, T/upper, T/workdir exist before mount(), the
\* directory part of mount() does not fail: mount() returns what the kernel
\* mount returns; it creates exactly the missing directories, keeps the
\* others, and after a successful mount() the three subdirectories exist.
MountCreatesMissingDirs ==
    drvLast.op = "mount" =>
        /\ drvLast.res.ok <=> (Len(mtab) = Len(drvLast.preMtab) + 1)
        /\ ~drvLast.res.ok => (drvLast.res.err = "mount" /\ mtab = drvLast.preMtab)
        /\ dirs = drvLast.preDirs \cup OverlayTree
        /\ drvLast.res.ok => OverlayTree \subseteq dirs

\* mount() has succeeded on a target that held only some of the directories
MountCreatesMissingDirsWitness ==
    /\ drvLast.op = "mount"
    /\ drvLast.res.ok
    /\ drvLast.preDirs = {Target, Join(Target, UPPER_DIR)}
    /\ OverlayTree \subseteq dirs

\* ------------------------------------------------------------------------
\* Properties of the Container handle (checked under Spec)
\* ------------------------------------------------------------------------

WaitBeforeStart ==
    /\ sup.container_pid.some <=> rt.pc # "none"
    /\ (call.by = SupPid /\ call.op = "wait" /\ rt.pc = "none")
         => /\ sup.last = Err("Container not started")
            /\ ~call.ok
            /\ call.fx = <<>>
            /\ sup.pc = "idle"

\* wait_for_container has failed on a handle that was never started, with a
\* message already in the channel
WaitBeforeStartWitness ==
    /\ call.by = SupPid
    /\ call.op = "wait"
    /\ rt.pc = "none"
    /\ ~sup.container_pid.some
    /\ sup.last = Err("Container not started")
    /\ chan # <<>>

\* the supervisor's last call was execute_in_container, on a handle whose
\* start() has not succeeded
ExecutedUnstarted ==
    /\ call.by = SupPid
    /\ call.op = "execute"
    /\ rt.pc = "none"

\* C14 (as claimed): execute_in_container called before start() fails and
\* puts no Command on the channel.
ExecuteBeforeStartFails ==
    ExecutedUnstarted =>
        /\ ~call.ok
        /\ \A i \in 1..Len(chan) : chan[i].kind # "COMMAND"

\* C14 (amended): execute_in_container called before start() sends its
\* Command like any other call and returns Ok; the message is the newest in
\* the channel and nothing has been received.
ExecuteBeforeStartEnqueues ==
    ExecutedUnstarted =>
        /\ call.ok
        /\ sup.last = Ok(<<>>)
        /\ call.fx = <<Effect("send", "COMMAND")>>
        /\ chan # <<>>
        /\ chan[Len(chan)] = SentFor(sup.req, FORK)
        /\ chan = sent
        /\ received = <<>>

\* two calls before start() have left two Commands in the channel
ExecuteBeforeStartWitness ==
    /\ ExecutedUnstarted
    /\ call.ok
    /\ Len(chan) = 2
    /\ chan[1].kind = "COMMAND"
    /\ chan[2].kind = "COMMAND"

\* C15 (as claimed): a call of execute_in_container made after the child
\* has terminated returns a send error and leaves no message behind.
SendAfterDeathFails ==
    [][ (/\ Terminated(rt)
         /\ call'.by = SupPid
         /\ call'.op = "execute"
         /\ (call' # call \/ sent' # sent \/ sup' # sup))
            => (~call'.ok /\ sent' = sent /\ chan' = chan) ]_vars

\* the supervisor's last call was stop()
Stopped == call.by = SupPid /\ call.op = "stop"

StopEffects ==
    <<Effect("send", "STOP")>>
    \o (IF sup.container_pid.some THEN <<Effect("kill", "SIGTERM")>> ELSE <<>>)
    \o <<Effect("umount", "")>>

StartStopScenario ==
    /\ Stopped
    /\ sup.container_pid.some
    /\ sent = <<StopMsg>>
    /\ rt.boot = Len(BootSteps)
    /\ Terminated(rt)
    /\ ~(rt.pc = "exited" /\ rt.status = 101)
    /\ rt.signal # "SIGABRT"

ArgvConvention ==
    \A j \in 1..Len(execs) :
        /\ execs[j].idx <= Len(received)
        /\ execs[j].exec_type \in ExecTypes
        /\ LET c == received[execs[j].idx].command
           IN  /\ Len(execs[j].argv) = 1 + Len(c.args)
               /\ execs[j].argv = <<c.command>> \o c.args

\* the entries the runtime appends, as the claim lists them
InjectedEntries ==
    << <<"container", "libcontainer-rs">>,
       <<"container_uuid", rtm.id>>,
       <<"HOME", UserInfo(rtm.options.user).home>>,
       <<"SHELL", UserInfo(rtm.options.user).shell>>,
       <<"USER", "root">>,
       <<"HOSTNAME", rtm.hostname>>,
       <<"PATH", "/usr/local/sbin:/usr/local/bin:/usr/sbin:/usr/bin:/sbin:/bin">> >>

\* C19: the environment the runtime passes to exec for a received Command is
\* the Command's own env, every entry kept and in order, followed by the
\* seven injected entries in their order; an entry of the caller with an
\* injected key stays where it was.
EnvInjection ==
    \A j \in 1..Len(execs) :
        /\ execs[j].idx <= Len(received)
        /\ LET c == received[execs[j].idx].command
           IN  /\ Len(execs[j].env) = Len(c.env) + 7
               /\ SubSeq(execs[j].env, 1, Len(c.env)) = c.env
               /\ SubSeq(execs[j].env, Len(c.env) + 1, Len(c.env) + 7) = InjectedEntries

\* a Command whose env sets PATH itself has been executed: both PATH entries
\* are in the environment, the caller's first
EnvInjectionWitness ==
    \E j \in 1..Len(execs) :
        /\ Len(execs[j].env) = 9
        /\ execs[j].env[1] = <<"PATH", "/opt/bin">>
        /\ execs[j].env[9][1] = "PATH"
        /\ execs[j].ok

\* ------------------------------------------------------------------------
\* Properties of the hostname (checked under SpecHost)
\* ------------------------------------------------------------------------

\* the hostname the claim expects of the runtime: the configured one, or the
\* first twelve characters of the id, all of it when it has fewer
ExpectedHostname ==
    IF rtm.options.hostname.some THEN rtm.options.hostname.val
    ELSE [i \in 1..(IF Len(rtm.id) < 12 THEN Len(rtm.id) ELSE 12) |-> rtm.id[i]]

\* C20: the runtime's hostname is the configured hostname when there is one
\* and otherwise the first twelve characters of the id (the whole id when it
\* is shorter).  setup_hostname sets the UTS hostname to it before it
\* touches /etc/hostname, and when it has succeeded the file holds exactly
\* that hostname; HOSTNAME in every injected environment is that hostname.
EffectiveHostname ==
    /\ rtm.hostname = ExpectedHostname
    /\ host.hostname \in {ParentHostname, ExpectedHostname}
    /\ host.etc \notin {NoFile, FileOf(ImageHostname)} => host.hostname = ExpectedHostname
    /\ (rt.pc # "none" /\ rt.boot = Len(BootSteps))
          => (host.hostname = ExpectedHostname /\ host.etc = FileOf(ExpectedHostname))
    /\ rt.boot < Len(BootSteps) - 1 => host \in {FreshHost(NoFile), FreshHost(FileOf(ImageHostname))}
    /\ \A j \in 1..Len(execs) :
          \E k \in 1..Len(execs[j].env) :
              /\ execs[j].env[k] = <<"HOSTNAME", ExpectedHostname>>
              /\ \A l \in 1..Len(execs[j].env) :
                    execs[j].env[l][1] = "HOSTNAME" => l = k

\* a runtime with a five-character id and no configured hostname has set
\* the hostname over the image's longer /etc/hostname and run a command
EffectiveHostnameWitness ==
    /\ rtm.id = ShortId
    /\ ~rtm.options.hostname.some
    /\ host.hostname = ShortId
    /\ host.etc = FileOf(ShortId)
    /\ rt.boot = Len(BootSteps)
    /\ execs # <<>>

\* ------------------------------------------------------------------------
\* Properties of the bootstrap (checked under Spec)
\* ------------------------------------------------------------------------

\* the bootstrap as the claims order it, the root lookup being part of the
\* switch of the root
BootOrder ==
    <<"mount_rootfs_private", "fs.mount", "fs.root", "switch_rootfs",
      "mount_procfs", "mount_sysfs", "mount_devfs", "setup_hostname">>

\* C21: the steps the child has run are the first steps of the bootstrap
\* order, each begun after the one before it succeeded, and a message is
\* received only after all of them have succeeded.
BootstrapBeforeReceive ==
    /\ Len(rt.steps) <= Len(BootOrder)
    /\ \A i \in 1..Len(rt.steps) :
          /\ rt.steps[i].step = BootOrder[i]
          /\ i < Len(rt.steps) => rt.steps[i].ok
    /\ (received # <<>> \/ execs # <<>> \/ rt.pc \in {"loop", "program"})
          => /\ Len(rt.steps) = Len(BootOrder)
             /\ \A i \in 1..Len(rt.steps) : rt.steps[i].ok

\* a Command that was in the channel before the bootstrap was over has been
\* received after the hostname was set
BootstrapBeforeReceiveWitness ==
    /\ preBoot >= 1
    /\ received # <<>>
    /\ Len(rt.steps) = Len(BootOrder)
    /\ rt.steps[Len(BootOrder)] = [step |-> "setup_hostname", ok |-> TRUE]
    /\ host.hostname = rtm.hostname

\* a bootstrap step of the child has failed
BootFailed == \E i \in 1..Len(rt.steps) : ~rt.steps[i].ok

\* C22: when a bootstrap step fails it is the last step run; the child never
\* enters the event loop, receives nothing and executes nothing, and when it
\* exits its exit code is not zero, which is the status a wait returns with.
BootFailureEndsChild ==
    BootFailed =>
        /\ ~rt.steps[Len(rt.steps)].ok
        /\ \A i \in 1..(Len(rt.steps) - 1) : rt.steps[i].ok
        /\ rt.boot = Len(rt.steps) - 1
        /\ rt.pc \in {"returning", "exited", "killed"}
        /\ received = <<>>
        /\ execs = <<>>
        /\ procs = <<>>
        /\ rt.pc = "exited" => rt.status # 0
        /\ rt.pc = "killed" => rt.signal \in {StopSignal}

\* the switch of the root has failed with a Command waiting; the child has
\* exited and the supervisor's wait has returned
BootFailureEndsChildWitness ==
    /\ BootFailed
    /\ Len(rt.steps) = 4
    /\ rt.steps[4].step = "switch_rootfs"
    /\ rt.pc = "exited"
    /\ rt.status # 0
    /\ rt.reaped
    /\ chan # <<>>

\* ------------------------------------------------------------------------
\* More properties of the overlay driver (checked under SpecDriver)
\* ------------------------------------------------------------------------

\* C23 (as claimed): in every state the driver holds a mount handle exactly
\* when an overlay is mounted at T/merge.
HandleIffMounted ==
    drv.mount.some <=> IsMountPoint(mtab, MergePath)

\* ------------------------------------------------------------------------
\* Properties of the channel ends (checked under SpecLive)
\* ------------------------------------------------------------------------

\* C24 (as claimed): when the supervisor is gone and the runtime waits in
\* receive on an empty channel, the runtime eventually leaves the event loop.
ReceiveFailsWhenProducerGone ==
    (sup.pc = "gone" /\ rt.pc = "loop" /\ chan = <<>>) ~> (rt.pc # "loop")

\* C25: at most one process receives from the control channel, the runtime:
\* every step that takes a message off the channel is the event loop's
\* receive (it logs the head of the queue as received and leaves the
\* supervisor and its call record alone), and no forked child, also one
\* whose execvpe failed, is ever in a copy of the event loop.
SingleReceiver ==
    /\ [](\A i \in 1..Len(procs) : procs[i].state # "looping")
    /\ [][Len(chan') < Len(chan) =>
            /\ rt.pc = "loop"
            /\ chan' = Tail(chan)
            /\ received' = Append(received, Head(chan))
            /\ sup' = sup
            /\ call' = call]_vars

\* a FORK-mode command's execvpe failed in the forked child and the runtime
\* received the message after it
SingleReceiverWitness ==
    /\ Len(received) = 2
    /\ \E k \in 1..Len(execs) :
         /\ execs[k].idx = 1
         /\ execs[k].effect = "fork"
    /\ \E i \in 1..Len(procs) : procs[i].state \in {"exec_failed", "zombie", "killed"}
                                 /\ procs[i].argv[1] \notin Executables

\* C26: a FORK-mode Command whose fork succeeds returns Ok to the runtime
\* and leaves it in the event loop, unchanged, with one more forked child
\* running the command's argv beside it; the messages received after it are
\* the ones sent after it, in send order.
ForkKeepsLoop ==
    /\ [][(/\ Len(execs') = Len(execs) + 1
            /\ execs'[Len(execs')].effect = "fork")
           => /\ rt.pc = "loop"
              /\ rt' = rt
              /\ execs'[Len(execs')].exec_type = FORK
              /\ execs'[Len(execs')].ok
              /\ Len(procs') = Len(procs) + 1
              /\ procs'[Len(procs')].argv = execs'[Len(execs')].argv
              /\ \A i \in 1..Len(procs) : procs'[i] = procs[i]]_vars
    /\ [](\A k \in 1..Len(execs) :
            execs[k].effect = "fork" =>
                \A j \in (execs[k].idx + 1)..Len(received) :
                    j <= Len(sent) /\ received[j] = sent[j])

\* the program of a FORK-mode Command is running in a forked child while the
\* runtime, still in its loop, has executed the Command that followed it
ForkKeepsLoopWitness ==
    /\ rt.pc = "loop"
    /\ Len(received) = 2
    /\ Len(procs) >= 1
    /\ procs[1].state = "running"
    /\ \E k \in 1..Len(execs) : execs[k].idx = 1 /\ execs[k].effect = "fork"
    /\ \E k \in 1..Len(execs) : execs[k].idx = 2

\* the operations of the storage driver
DriverEffects == {"mount", "umount", "root"}

\* C27 (as claimed): the supervisor process never calls mount, umount or
\* root on the storage driver: no call of a Container method made by the
\* supervisor has one of them among its effects.
SupervisorLeavesDriver ==
    call.by = SupPid =>
        \A i \in 1..Len(call.fx) : call.fx[i].do \notin DriverEffects

====
